---- MODULE Spec2Model ----
(***************************************************************************)
(* Model of the validation-table notebook                                  *)
(* validation_data/CSLC_Create_Validation_Table_with_az_fm_rate.ipynb:     *)
(* the paginated S3 listing generator get_matching_s3_keys, the load of    *)
(* the persisted table, the seed-file check, the build loop and the save   *)
(* cell (drop_duplicates, sort_values, to_csv).                            *)
(*                                                                         *)
(* Strings are opaque in TLC, so every string operation of the code        *)
(* (ordering, endswith, startswith, int parsing, WKT decoding) is a table  *)
(* over the finite universe of strings the model uses.                     *)
(***************************************************************************)
EXTENDS Integers, Sequences, FiniteSets, TLC

\* ------------------------------------------------------------------------
\* Bounds of the model
\* ------------------------------------------------------------------------
\* largest number of rows of the seed table
MaxSeed == 2
\* largest number of keys S3 returns in one response (1000 in production)
MaxKeys == 2
\* number of times the notebook is run in a row
MaxRuns == 2

\* ------------------------------------------------------------------------
\* Static variables of the notebook
\* ------------------------------------------------------------------------
bucket == "opera-provisional-products"
prefix == "CSLC/pst_adt_common/az_fm_rate/no_az_fm_rate"
s3_path == "s3://opera-provisional-products"
suffix == ".h5"
version_num == "1.0"
cslc_static_url == "None"

\* ------------------------------------------------------------------------
\* The universe of strings
\* ------------------------------------------------------------------------
Bursts == {"t142_303931_iw3", "t142_303932_iw3"}
Networks == {"Ecuador", "Oklahoma"}

\* str.__lt__ on the strings that are ever compared (burst ids, date tokens)
StrRank ==
    ("20141015" :> 1) @@ ("20141108" :> 2) @@
    ("t142_303931_iw3" :> 3) @@ ("t142_303932_iw3" :> 4)

StrLess(a, b) == StrRank[a] < StrRank[b]

\* int(text) for the texts that parse as an integer: pandas' read_csv turns a
\* column into int64 exactly when every cell of it parses
IntOfText == ("20141015" :> 20141015) @@ ("20141108" :> 20141108)

IsIntText(t) == t \in DOMAIN IntOfText

\* str(n) as to_csv writes an integer cell
TextOfInt(n) == CHOOSE t \in DOMAIN IntOfText : IntOfText[t] = n

\* key.endswith(suffix), by file name
EndsWith(name, suf) ==
    \/ suf = ".h5" /\ name \in {"a.h5", "b.h5"}
    \/ suf = ".json" /\ name \in {"a.json"}

\* segment.startswith('20')
StartsWith20(seg) == seg \in {"20141015", "20141108"}

\* ------------------------------------------------------------------------
\* Values of a table cell
\* ------------------------------------------------------------------------
\* a Python str and a Python int in the 'date' column
StrVal(s) == [type |-> "str", s |-> s, n |-> 0]
IntVal(n) == [type |-> "int", s |-> "", n |-> n]

\* the text to_csv writes for a date cell
DateText(d) == IF d.type = "int" THEN TextOfInt(d.n) ELSE d.s

\* shapely geometries and their well-known text
Polygon1 == [geom_type |-> "Polygon", exterior |-> <<<<0, 0>>, <<1, 0>>, <<1, 1>>, <<0, 0>>>>]
Polygon2 == [geom_type |-> "Polygon", exterior |-> <<<<2, 2>>, <<3, 2>>, <<3, 3>>, <<2, 2>>>>]

\* wkt.loads / GeoSeries.from_wkt
WktLoads(text) ==
    CASE text = "POLYGON ((0 0, 1 0, 1 1, 0 0))" -> Polygon1
      [] text = "POLYGON ((2 2, 3 2, 3 3, 2 2))" -> Polygon2

\* the text to_csv writes for a geometry cell
WktDumps(g) ==
    CASE g = Polygon1 -> "POLYGON ((0 0, 1 0, 1 1, 0 0))"
      [] g = Polygon2 -> "POLYGON ((2 2, 3 2, 3 3, 2 2))"

\* ------------------------------------------------------------------------
\* The bucket
\* ------------------------------------------------------------------------
\* An S3 key is the sequence of its '/'-separated segments.
Obj(net, burst, date, name, modified, wktText) ==
    [Key |-> <<prefix, net, burst, date, name>>,
     LastModified |-> modified,
     bounding_polygon |-> wktText]

\* every object the bucket may hold, in the order S3 lists them (by key)
Universe ==
    << Obj("Ecuador", "t142_303931_iw3", "20141015", "a.h5", 2, "POLYGON ((0 0, 1 0, 1 1, 0 0))"),
       Obj("Ecuador", "t142_303931_iw3", "20141015", "a.json", 1, "POLYGON ((0 0, 1 0, 1 1, 0 0))"),
       Obj("Ecuador", "t142_303931_iw3", "20141015", "b.h5", 1, "POLYGON ((0 0, 1 0, 1 1, 0 0))"),
       Obj("Ecuador", "t142_303931_iw3", "20141108", "a.h5", 0, "POLYGON ((0 0, 1 0, 1 1, 0 0))"),
       Obj("Ecuador", "t142_303932_iw3", "20141015", "a.h5", 1, "POLYGON ((2 2, 3 2, 3 3, 2 2))"),
       Obj("Oklahoma", "t142_303931_iw3", "20141015", "a.h5", 1, "POLYGON ((0 0, 1 0, 1 1, 0 0))") >>

Range(s) == {s[i] : i \in 1..Len(s)}

Min(a, b) == IF a < b THEN a ELSE b

\* ------------------------------------------------------------------------
\* Files
\* ------------------------------------------------------------------------
NoFile == [exists |-> FALSE, header |-> <<>>, rows |-> <<>>]

\* the seed tables: up to MaxSeed rows of (burst_id, cr_network)
SeedRow == [burst_id : Bursts, cr_network : Networks]

SeedTables == UNION {[1..n -> SeedRow] : n \in 0..MaxSeed}

VARIABLES
    objects,                \* the objects in the bucket
    max_keys,               \* the page size S3 applies
    validation_bursts,      \* the seed file
    validation_csv,         \* the persisted table file
    pc,                     \* the cell / statement the run is at
    validation_bursts_df,   \* the working table
    df_val,                 \* the seed table as read
    df_ind,                 \* position of the outer for loop
    kwargs,                 \* get_matching_s3_keys: request arguments
    resp,                   \* get_matching_s3_keys: last response
    valid_results,          \* get_matching_s3_keys: keys of the page not yet yielded
    yielded,                \* keys yielded so far by the current generator
    requests,               \* list_objects_v2 calls of this run
    fetches,                \* geometry reads of this run
    csv0,                   \* the persisted file as it was when the run started
    outputs,                \* the persisted file after each completed run
    run                     \* number of the current run

vars == <<objects, max_keys, validation_bursts, validation_csv, pc,
          validation_bursts_df, df_val, df_ind, kwargs, resp, valid_results,
          yielded, requests, fetches, csv0, outputs, run>>


\* ------------------------------------------------------------------------
\* Data frames
\* ------------------------------------------------------------------------
\* the placeholder columns of a fresh table: it has no geometry column yet
PlaceholderColumns == <<"burst_id", "date", "cslc_url", "cslc_static_url">>

AllColumns == <<"burst_id", "date", "cslc_url", "cslc_static_url", "geometry">>

\* validation_bursts_df = gpd.GeoDataFrame() with the placeholder columns
EmptyFrame == [columns |-> PlaceholderColumns, rows |-> <<>>]

\* df["geometry"] raises KeyError when the file has no such column
LoadRaises(file) == "geometry" \notin Range(file.header)

\* pd.read_csv + GeoSeries.from_wkt: a column whose cells all parse as
\* integers becomes int64, any other column keeps its strings; an empty
\* cell becomes NaN
ReadCsv(file) ==
    LET allInt == \A i \in 1..Len(file.rows) : IsIntText(file.rows[i].date)
        cell(r) == [burst_id |-> r.burst_id,
                    date |-> IF allInt THEN IntVal(IntOfText[r.date]) ELSE StrVal(r.date),
                    cslc_url |-> r.cslc_url,
                    cslc_static_url |-> "NaN",
                    geometry |-> WktLoads(r.geometry)]
    IN  [columns |-> AllColumns,
         rows |-> [i \in 1..Len(file.rows) |-> cell(file.rows[i])]]

\* to_csv(index=False): every cell as text, None and NaN as the empty text
ToCsv(d) ==
    LET text(r) == [burst_id |-> r.burst_id,
                    date |-> DateText(r.date),
                    cslc_url |-> r.cslc_url,
                    cslc_static_url |-> "",
                    geometry |-> WktDumps(r.geometry)]
    IN  [exists |-> TRUE,
         header |-> d.columns,
         rows |-> [i \in 1..Len(d.rows) |-> text(d.rows[i])]]

\* pd.concat called without keeping its result
ConcatDropped(d, file_dict) == d

\* pd.concat([validation_bursts_df, gpd.GeoDataFrame([file_dict])], ignore_index=True)
Concat(d, file_dict) == [columns |-> AllColumns, rows |-> Append(d.rows, file_dict)]

\* equality of two cells of the date column, as the hash table of
\* drop_duplicates sees it: an int never equals a str
SameDate(a, b) == a.type = b.type /\ a.s = b.s /\ a.n = b.n

\* drop_duplicates(['date']): the burst_id left out of the subset
DropDuplicatesByDate(d) ==
    LET dup(i) == \E j \in 1..(i - 1) : SameDate(d.rows[j].date, d.rows[i].date)
        F[i \in 0..Len(d.rows)] ==
            IF i = 0 THEN <<>>
            ELSE IF dup(i) THEN F[i - 1] ELSE Append(F[i - 1], d.rows[i])
    IN  [columns |-> d.columns, rows |-> F[Len(d.rows)]]

\* drop_duplicates(['burst_id', 'date'], keep='last')
DropDuplicatesKeepLast(d) ==
    LET dup(i) == \E j \in (i + 1)..Len(d.rows) :
                     /\ d.rows[j].burst_id = d.rows[i].burst_id
                     /\ SameDate(d.rows[j].date, d.rows[i].date)
        F[i \in 0..Len(d.rows)] ==
            IF i = 0 THEN <<>>
            ELSE IF dup(i) THEN F[i - 1] ELSE Append(F[i - 1], d.rows[i])
    IN  [columns |-> d.columns, rows |-> F[Len(d.rows)]]

\* drop_duplicates(['burst_id', 'date']): keep='first'
DropDuplicates(d) ==
    LET dup(i) == \E j \in 1..(i - 1) :
                     /\ d.rows[j].burst_id = d.rows[i].burst_id
                     /\ SameDate(d.rows[j].date, d.rows[i].date)
        F[i \in 0..Len(d.rows)] ==
            IF i = 0 THEN <<>>
            ELSE IF dup(i) THEN F[i - 1] ELSE Append(F[i - 1], d.rows[i])
    IN  [columns |-> d.columns, rows |-> F[Len(d.rows)]]

\* order of the date column inside sort_values on two columns: the values are
\* made an ordered Categorical, whose categories come from safe_sort, and
\* safe_sort puts the integers before the strings
DateLess(a, b) ==
    \/ a.type = "int" /\ b.type = "str"
    \/ a.type = "int" /\ b.type = "int" /\ a.n < b.n
    \/ a.type = "str" /\ b.type = "str" /\ StrLess(a.s, b.s)

\* a sorts strictly before b by ['burst_id', 'date'], both ascending
RowLess(a, b) ==
    \/ StrLess(a.burst_id, b.burst_id)
    \/ a.burst_id = b.burst_id /\ DateLess(a.date, b.date)

\* a stable sort: each element goes behind the ones that are not greater
StableSort(s, Less(_, _)) ==
    LET ins(acc, x) ==
            LET k == Cardinality({i \in 1..Len(acc) : ~Less(x, acc[i])})
            IN  SubSeq(acc, 1, k) \o <<x>> \o SubSeq(acc, k + 1, Len(acc))
        F[i \in 0..Len(s)] == IF i = 0 THEN <<>> ELSE ins(F[i - 1], s[i])
    IN  F[Len(s)]

\* the table left in insertion order
SortValuesNone(d) == d

\* sort_values(by=['burst_id', 'date'], ascending=[True, True]).reset_index(drop=True)
SortValues(d) == [columns |-> d.columns, rows |-> StableSort(d.rows, RowLess)]


\* ------------------------------------------------------------------------
\* get_matching_s3_keys
\* ------------------------------------------------------------------------
NoToken == 0

\* kwargs = {'Bucket': bucket}; kwargs['Prefix'] = f'{prefix}/{burst_id}/20',
\* called with prefix = f'{prefix}/{cr_network}'
InitialKwargs(cr_network, burst_id) ==
    [Bucket |-> bucket,
     Prefix |-> <<prefix, cr_network, burst_id, "20">>,
     ContinuationToken |-> NoToken]

\* a key starts with the Prefix of the request
HasPrefix(key, pre) ==
    /\ key[1] = pre[1]
    /\ key[2] = pre[2]
    /\ key[3] = pre[3]
    /\ StartsWith20(key[4])

\* s3.list_objects_v2(**kwargs): the keys under the prefix in key order, at
\* most `size` of them from the continuation token on; 'Contents' is left out
\* of a response without keys, 'NextContinuationToken' of the last one
list_objects_v2(objs, size, kw) ==
    LET listed == SelectSeq(Universe, LAMBDA o : o \in objs /\ HasPrefix(o.Key, kw.Prefix))
        first == IF kw.ContinuationToken = NoToken THEN 1 ELSE kw.ContinuationToken
        last == Min(first + size - 1, Len(listed))
    IN  [Contents |-> SubSeq(listed, first, last),
         NextContinuationToken |-> IF last < Len(listed) THEN last + 1 ELSE NoToken]

\* resp['Contents'] raises KeyError
NoContents(r) == r.Contents = <<>>

ModifiedLess(a, b) == a.LastModified < b.LastModified

\* [obj['Key'] for obj in sorted(valid_results, key=get_last_modified)]
SortedKeys(contents) ==
    LET sorted == StableSort(contents, ModifiedLess)
    IN  [i \in 1..Len(sorted) |-> sorted[i].Key]

\* the suffix filter left out
FilterSuffixNone(keys, suf) == keys

\* [i for i in valid_results if i.endswith(suffix)]
FilterSuffix(keys, suf) == SelectSeq(keys, LAMBDA k : EndsWith(k[Len(k)], suf))

\* the keys one response makes the generator yield
PageKeys(r) == FilterSuffix(SortedKeys(r.Contents), suffix)

\* the token of the response raised by one
NextKwargsSkipping(kw, r) ==
    [kw EXCEPT !.ContinuationToken = r.NextContinuationToken + 1]

\* kwargs['ContinuationToken'] = resp['NextContinuationToken']
\* the continuation token of the response is not stored: the request is repeated
NextKwargsStale(kw, r) == kw

NextKwargs(kw, r) == [kw EXCEPT !.ContinuationToken = r.NextContinuationToken]

\* the loop also left when a page gave nothing to yield
NoNextTokenOrNothingYielded(r) == r.NextContinuationToken = NoToken \/ PageKeys(r) = <<>>

\* resp['NextContinuationToken'] raises KeyError
NoNextToken(r) == r.NextContinuationToken = NoToken

\* ------------------------------------------------------------------------
\* The body of the build loop
\* ------------------------------------------------------------------------
\* cslc_url = f'{s3_path}/{key}'
cslc_url(key) == <<s3_path>> \o key

\* the key itself, without the s3 path, looked up in the cslc_url column
CapturedByKey(d, url) == \E i \in 1..Len(d.rows) : d.rows[i].cslc_url = Tail(url)

\* cslc_url in validation_bursts_df['cslc_url'].values.astype(str)
Captured(d, url) == \E i \in 1..Len(d.rows) : d.rows[i].cslc_url = url

\* key.split('/')[-3]: the segment of the burst taken for the date
dateWrongSegment(key) == StrVal(key[Len(key) - 2])

\* date = key.split('/')[-2]
date(key) == StrVal(key[Len(key) - 1])

\* idx_geo = next(iter(geom_check.index[geom_check]), False): the first index
\* label whose burst_id matches; labels count from 0
idx_geo(d, burst_id) ==
    LET hits == {i \in 1..Len(d.rows) : d.rows[i].burst_id = burst_id}
    IN  IF hits = {} THEN [found |-> FALSE, label |-> 0]
        ELSE [found |-> TRUE, label |-> (CHOOSE i \in hits : \A j \in hits : i <= j) - 1]

\* idx_geo != False: in Python the label 0 equals False
NotEqualFalse(idx) == idx.found /\ idx.label # 0

\* validation_bursts_df.loc[idx_geo]['geometry']
ReusedGeometry(d, idx) == d.rows[idx.label + 1].geometry

\* fsspec.open(cslc_url) / h5py / wkt.loads: the bounding polygon of the object
ReadGeometry(url) ==
    LET o == CHOOSE x \in Range(Universe) : cslc_url(x.Key) = url
    IN  WktLoads(o.bounding_polygon)

file_dict(burst_id, key, geometry) ==
    [burst_id |-> burst_id,
     date |-> date(key),
     cslc_url |-> cslc_url(key),
     cslc_static_url |-> cslc_static_url,
     geometry |-> geometry]

\* a geometry that was never decoded
NoGeometry == [geom_type |-> "None", exterior |-> <<>>]

\* the read wrapped in try/except: the row is appended without a geometry
AfterFetchErrorPlaceholder(d, burst, k) == Concat(d, file_dict(burst, k, NoGeometry))

\* the table after a geometry read has raised: the exception leaves the loop
\* before the record is built
AfterFetchError(d, burst, k) == d

\* the table after one pass of the loop body that raises nothing
LoopBody(d, burst, k) ==
    IF Captured(d, cslc_url(k)) THEN d
    ELSE LET idx == idx_geo(d, burst)
             geometry == IF NotEqualFalse(idx) THEN ReusedGeometry(d, idx)
                         ELSE ReadGeometry(cslc_url(k))
         IN  Concat(d, file_dict(burst, k, geometry))

\* the working table written as it is
SavedFrameRaw(d) == d

\* the table the save cell writes
SavedFrame(d) == SortValues(DropDuplicates(d))

\* ------------------------------------------------------------------------
\* A whole run that raises nothing, as one function of its inputs
\* ------------------------------------------------------------------------
\* list(get_matching_s3_keys(...)): the generator drained
RECURSIVE MatchingKeys(_, _, _)
MatchingKeys(objs, size, kw) ==
    LET r == list_objects_v2(objs, size, kw)
    IN  IF NoContents(r) THEN <<>>
        ELSE IF NoNextToken(r) THEN PageKeys(r)
        ELSE PageKeys(r) \o
             MatchingKeys(objs, size, NextKwargs(kw, r))

\* the inner for loop over the keys of one seed row
InnerLoop(d, burst, keys) ==
    LET F[i \in 0..Len(keys)] == IF i = 0 THEN d ELSE LoopBody(F[i - 1], burst, keys[i])
    IN  F[Len(keys)]

\* the outer for loop over the seed table
BuildLoop(d, rows, objs, size) ==
    LET F[i \in 0..Len(rows)] ==
            IF i = 0 THEN d
            ELSE InnerLoop(F[i - 1], rows[i].burst_id,
                           MatchingKeys(objs, size,
                                        InitialKwargs(rows[i].cr_network, rows[i].burst_id)))
    IN  F[Len(rows)]

\* load or initialize, build, save: the file the run leaves
RunNotebook(file, rows, objs, size) ==
    LET d == IF file.exists THEN ReadCsv(file) ELSE EmptyFrame
    IN  ToCsv(SavedFrame(BuildLoop(d, rows, objs, size)))

\* ------------------------------------------------------------------------
\* The run of the notebook
\* ------------------------------------------------------------------------
\* the row of the seed table the outer loop is at
burst_id == df_val[df_ind].burst_id
cr_network == df_val[df_ind].cr_network

\* the key the generator hands to the loop body
key == Head(valid_results)

\* the existence check left out
SeedMissingIgnored(file) == FALSE

\* not validation_bursts.is_file()
SeedMissing(file) == ~file.exists

\* what a run leaves untouched: the bucket, its page size and the seed file
world == <<objects, max_keys, validation_bursts>>
generator == <<kwargs, resp, valid_results, yielded>>
logs == <<requests, fetches>>
history == <<csv0, outputs, run>>

NoResponse == [Contents |-> <<>>, NextContinuationToken |-> NoToken]

NoKwargs == [Bucket |-> bucket, Prefix |-> <<>>, ContinuationToken |-> NoToken]

Init ==
    /\ objects \in SUBSET Range(Universe)
    /\ max_keys \in 1..MaxKeys
    /\ validation_bursts \in
         {NoFile} \cup {[exists |-> TRUE, header |-> <<"burst_id", "cr_network">>, rows |-> t] :
                           t \in SeedTables}
    /\ validation_csv = NoFile
    /\ pc = "load"
    /\ validation_bursts_df = EmptyFrame
    /\ df_val = <<>>
    /\ df_ind = 1
    /\ kwargs = NoKwargs
    /\ resp = NoResponse
    /\ valid_results = <<>>
    /\ yielded = <<>>
    /\ requests = <<>>
    /\ fetches = <<>>
    /\ csv0 = NoFile
    /\ outputs = <<>>
    /\ run = 1

\* if validation_csv.is_file(): read the table
LoadExisting ==
    /\ pc = "load"
    /\ validation_csv.exists
    /\ ~LoadRaises(validation_csv)
    /\ validation_bursts_df' = ReadCsv(validation_csv)
    /\ pc' = "check"
    /\ UNCHANGED <<world, validation_csv, df_val, df_ind, generator, logs, history>>

\* the file is there but was written from a table without a geometry column
LoadKeyError ==
    /\ pc = "load"
    /\ validation_csv.exists
    /\ LoadRaises(validation_csv)
    /\ pc' = "error"
    /\ UNCHANGED <<world, validation_csv, validation_bursts_df, df_val, df_ind,
                   generator, logs, history>>

\* else: initialize the table
LoadInitial ==
    /\ pc = "load"
    /\ ~validation_csv.exists
    /\ validation_bursts_df' = EmptyFrame
    /\ pc' = "check"
    /\ UNCHANGED <<world, validation_csv, df_val, df_ind, generator, logs, history>>

\* raise Exception('Expected burst record ... not found')
CheckSeedMissing ==
    /\ pc = "check"
    /\ SeedMissing(validation_bursts)
    /\ pc' = "error"
    /\ UNCHANGED <<world, validation_csv, validation_bursts_df, df_val, df_ind,
                   generator, logs, history>>

CheckSeedPresent ==
    /\ pc = "check"
    /\ ~SeedMissing(validation_bursts)
    /\ pc' = "query"
    /\ UNCHANGED <<world, validation_csv, validation_bursts_df, df_val, df_ind,
                   generator, logs, history>>

\* df_val = pd.read_csv(validation_bursts)
ReadSeed ==
    /\ pc = "query"
    /\ df_val' = validation_bursts.rows
    /\ df_ind' = 1
    /\ pc' = "for"
    /\ UNCHANGED <<world, validation_csv, validation_bursts_df, generator, logs, history>>

\* for df_ind in df_val.index: the next row, and the generator made for it
StartBurst ==
    /\ pc = "for"
    /\ df_ind <= Len(df_val)
    /\ kwargs' = InitialKwargs(cr_network, burst_id)
    /\ resp' = NoResponse
    /\ valid_results' = <<>>
    /\ yielded' = <<>>
    /\ pc' = "request"
    /\ UNCHANGED <<world, validation_csv, validation_bursts_df, df_val, df_ind,
                   logs, history>>

\* the seed table is exhausted
EndLoop ==
    /\ pc = "for"
    /\ df_ind > Len(df_val)
    /\ pc' = "save"
    /\ UNCHANGED <<world, validation_csv, validation_bursts_df, df_val, df_ind,
                   generator, logs, history>>

\* resp = s3.list_objects_v2(**kwargs), a response with 'Contents'
ListPage ==
    /\ pc = "request"
    /\ LET r == list_objects_v2(objects, max_keys, kwargs)
       IN  /\ ~NoContents(r)
           /\ resp' = r
           /\ valid_results' = PageKeys(r)
    /\ requests' = Append(requests, kwargs)
    /\ pc' = "yield"
    /\ UNCHANGED <<world, validation_csv, validation_bursts_df, df_val, df_ind,
                   kwargs, yielded, fetches, history>>

\* a response without 'Contents': break, the generator is exhausted
ListNoContents ==
    /\ pc = "request"
    /\ LET r == list_objects_v2(objects, max_keys, kwargs)
       IN  /\ NoContents(r)
           /\ resp' = r
    /\ requests' = Append(requests, kwargs)
    /\ df_ind' = df_ind + 1
    /\ pc' = "for"
    /\ UNCHANGED <<world, validation_csv, validation_bursts_df, df_val,
                   kwargs, valid_results, yielded, fetches, history>>

\* the listing request raises
ListRaises ==
    /\ pc = "request"
    /\ requests' = Append(requests, kwargs)
    /\ pc' = "error"
    /\ UNCHANGED <<world, validation_csv, validation_bursts_df, df_val, df_ind,
                   generator, fetches, history>>

\* the key is yielded and its URL is in the table already
SkipCaptured ==
    /\ pc = "yield"
    /\ valid_results # <<>>
    /\ Captured(validation_bursts_df, cslc_url(key))
    /\ validation_bursts_df' = LoopBody(validation_bursts_df, burst_id, key)
    /\ valid_results' = Tail(valid_results)
    /\ yielded' = Append(yielded, key)
    /\ UNCHANGED <<world, validation_csv, pc, df_val, df_ind, kwargs, resp, logs, history>>

\* the key is new and the table has a geometry for the burst
ReuseGeometry ==
    /\ pc = "yield"
    /\ valid_results # <<>>
    /\ ~Captured(validation_bursts_df, cslc_url(key))
    /\ NotEqualFalse(idx_geo(validation_bursts_df, burst_id))
    /\ validation_bursts_df' = LoopBody(validation_bursts_df, burst_id, key)
    /\ valid_results' = Tail(valid_results)
    /\ yielded' = Append(yielded, key)
    /\ UNCHANGED <<world, validation_csv, pc, df_val, df_ind, kwargs, resp, logs, history>>

\* the key is new and the geometry is read from the object
FetchGeometry ==
    /\ pc = "yield"
    /\ valid_results # <<>>
    /\ ~Captured(validation_bursts_df, cslc_url(key))
    /\ ~NotEqualFalse(idx_geo(validation_bursts_df, burst_id))
    /\ fetches' = Append(fetches, [burst_id |-> burst_id, cslc_url |-> cslc_url(key)])
    /\ validation_bursts_df' = LoopBody(validation_bursts_df, burst_id, key)
    /\ valid_results' = Tail(valid_results)
    /\ yielded' = Append(yielded, key)
    /\ UNCHANGED <<world, validation_csv, pc, df_val, df_ind, kwargs, resp, requests, history>>

\* the read of the geometry raises
FetchRaises ==
    /\ pc = "yield"
    /\ valid_results # <<>>
    /\ ~Captured(validation_bursts_df, cslc_url(key))
    /\ ~NotEqualFalse(idx_geo(validation_bursts_df, burst_id))
    /\ fetches' = Append(fetches, [burst_id |-> burst_id, cslc_url |-> cslc_url(key)])
    /\ validation_bursts_df' = AfterFetchError(validation_bursts_df, burst_id, key)
    /\ yielded' = Append(yielded, key)
    /\ pc' = "error"
    /\ UNCHANGED <<world, validation_csv, df_val, df_ind, kwargs, resp, valid_results,
                   requests, history>>

\* the page is used up: kwargs['ContinuationToken'] = resp['NextContinuationToken']
NextPage ==
    /\ pc = "yield"
    /\ valid_results = <<>>
    /\ ~NoNextToken(resp)
    /\ kwargs' = NextKwargs(kwargs, resp)
    /\ pc' = "request"
    /\ UNCHANGED <<world, validation_csv, validation_bursts_df, df_val, df_ind,
                   resp, valid_results, yielded, logs, history>>

\* the page is used up and the response had no token: break
LastPage ==
    /\ pc = "yield"
    /\ valid_results = <<>>
    /\ NoNextToken(resp)
    /\ df_ind' = df_ind + 1
    /\ pc' = "for"
    /\ UNCHANGED <<world, validation_csv, validation_bursts_df, df_val,
                   generator, logs, history>>

\* drop_duplicates, sort_values, to_csv
SaveTable ==
    /\ pc = "save"
    /\ validation_bursts_df' = SavedFrame(validation_bursts_df)
    /\ validation_csv' = ToCsv(validation_bursts_df')
    /\ outputs' = Append(outputs, validation_csv')
    /\ pc' = "done"
    /\ UNCHANGED <<world, df_val, df_ind, generator, logs, csv0, run>>

\* the notebook is run again, in a fresh kernel, on the files as they are
Rerun ==
    /\ pc \in {"done", "error"}
    /\ run < MaxRuns
    /\ run' = run + 1
    /\ csv0' = validation_csv
    /\ pc' = "load"
    /\ validation_bursts_df' = EmptyFrame
    /\ df_val' = <<>>
    /\ df_ind' = 1
    /\ kwargs' = NoKwargs
    /\ resp' = NoResponse
    /\ valid_results' = <<>>
    /\ yielded' = <<>>
    /\ requests' = <<>>
    /\ fetches' = <<>>
    /\ UNCHANGED <<world, validation_csv, outputs>>

Next ==
    \/ LoadExisting
    \/ LoadKeyError
    \/ LoadInitial
    \/ CheckSeedMissing
    \/ CheckSeedPresent
    \/ ReadSeed
    \/ StartBurst
    \/ EndLoop
    \/ ListPage
    \/ ListNoContents
    \/ ListRaises
    \/ SkipCaptured
    \/ ReuseGeometry
    \/ FetchGeometry
    \/ FetchRaises
    \/ NextPage
    \/ LastPage
    \/ SaveTable
    \/ Rerun

Spec == Init /\ [][Next]_vars


\* ------------------------------------------------------------------------
\* Properties
\* ------------------------------------------------------------------------
\* the file a completed run agrees with the run taken as one function
BigStepAgrees ==
    pc = "done" => validation_csv = RunNotebook(csv0, df_val, objects, max_keys)

\* the geometry reads of this run made for one burst
FetchesOf(b) == {i \in 1..Len(fetches) : fetches[i].burst_id = b}

\* C1: in one run the geometry is read at most once for each burst_id,
\* however many keys are listed under it.
GeometryReadOncePerBurst ==
    \A b \in Bursts : Cardinality(FetchesOf(b)) <= 1

\* C2: a run that completes after an earlier completed run, on the same
\* bucket and seed table, leaves the table file as the earlier run left it.
SecondRunChangesNothing ==
    (pc = "done" /\ Len(outputs) >= 2) =>
        outputs[Len(outputs)] = outputs[Len(outputs) - 1]

\* C3: the table a completed run writes has at most one row for each
\* (burst_id, date).
UniqueBurstDate ==
    pc = "done" =>
        \A i, j \in 1..Len(validation_csv.rows) :
            (/\ validation_csv.rows[i].burst_id = validation_csv.rows[j].burst_id
             /\ validation_csv.rows[i].date = validation_csv.rows[j].date) => i = j

\* row a of the file does not come after row b in the order (burst_id, date)
TextRowLeq(a, b) ==
    \/ StrLess(a.burst_id, b.burst_id)
    \/ a.burst_id = b.burst_id /\ ~StrLess(b.date, a.date)

\* C4: the table a completed run writes is sorted ascending by burst_id and,
\* within a burst_id, by date.
SortedByBurstDate ==
    pc = "done" =>
        \A i \in 1..(Len(validation_csv.rows) - 1) :
            TextRowLeq(validation_csv.rows[i], validation_csv.rows[i + 1])

\* the URL of the key in hand is the cslc_url of a row of the table
KeyInTable ==
    /\ pc = "yield"
    /\ valid_results # <<>>
    /\ \E i \in 1..Len(validation_bursts_df.rows) :
          validation_bursts_df.rows[i].cslc_url = <<s3_path>> \o Head(valid_results)

\* C5: a listed key whose URL is already in the table appends no row, reads
\* no geometry and leaves the table as it is.
CapturedKeyIsSkipped ==
    [][KeyInTable =>
          /\ validation_bursts_df' = validation_bursts_df
          /\ fetches' = fetches
          /\ pc' = "yield"]_vars

\* a key of the bucket has been skipped in a second run: its URL was loaded
\* from the file and nothing has been appended
SkippedKeyWitness ==
    /\ run = 2
    /\ pc = "yield"
    /\ yielded # <<>>
    /\ csv0.exists
    /\ \E i \in 1..Len(csv0.rows) : csv0.rows[i].cslc_url = <<s3_path>> \o yielded[Len(yielded)]
    /\ validation_bursts_df = ReadCsv(csv0)
    /\ fetches = <<>>


\* the seed table in every other order
Reorderings(rows) ==
    LET n == Len(rows)
        perms == {f \in [1..n -> 1..n] : \A i, j \in 1..n : f[i] = f[j] => i = j}
    IN  {[i \in 1..n |-> rows[f[i]]] : f \in perms}

\* the (burst_id, date) column pair of a table file
BurstDates(file) ==
    [i \in 1..Len(file.rows) |-> <<file.rows[i].burst_id, file.rows[i].date>>]

\* C6 as stated: a completed run leaves the same file, row by row, as the
\* run over the same seed rows in any other order would.
SameFileInAnyOrder ==
    pc = "done" =>
        \A rows \in Reorderings(df_val) :
            RunNotebook(csv0, rows, objects, max_keys) = validation_csv

\* C6 amended: a completed run leaves the same (burst_id, date) pairs in the
\* same order as the run over the same seed rows in any other order would.
SameBurstDatesInAnyOrder ==
    pc = "done" =>
        \A rows \in Reorderings(df_val) :
            BurstDates(RunNotebook(csv0, rows, objects, max_keys)) = BurstDates(validation_csv)

\* C7: a geometry read that raises stops the run: the row of the key is not
\* appended, no row ever has a geometry that was not decoded, and nothing
\* but a new run follows.
FetchErrorStopsRun ==
    /\ [](\A i \in 1..Len(validation_bursts_df.rows) :
             validation_bursts_df.rows[i].geometry \in {Polygon1, Polygon2})
    /\ [][(Len(fetches') > Len(fetches) /\ pc' = "error") =>
             validation_bursts_df' = validation_bursts_df]_vars
    /\ [][pc = "error" => (pc' = "load" /\ run' = run + 1)]_vars

\* the read for the key in hand has raised while more keys or seed rows wait
FetchErrorWitness ==
    /\ pc = "error"
    /\ valid_results # <<>>
    /\ fetches # <<>>
    /\ fetches[Len(fetches)].cslc_url = <<s3_path>> \o Head(valid_results)
    /\ \A i \in 1..Len(validation_bursts_df.rows) :
          validation_bursts_df.rows[i].cslc_url # <<s3_path>> \o Head(valid_results)
    /\ (Len(valid_results) >= 2 \/ df_ind < Len(df_val))

\* C8: without the seed file no listing request and no geometry read is made,
\* no row is appended and the table file is not written.
MissingSeedStopsRun ==
    ~validation_bursts.exists =>
        /\ pc \in {"load", "check", "error"}
        /\ requests = <<>>
        /\ fetches = <<>>
        /\ validation_bursts_df.rows = <<>>
        /\ validation_csv = NoFile

\* the seed check has raised
MissingSeedWitness ==
    /\ ~validation_bursts.exists
    /\ pc = "error"

\* the objects S3 lists for a seed row, in key order
ListedFor(objs, row) ==
    SelectSeq(Universe, LAMBDA o : /\ o \in objs
                                   /\ o.Key[2] = row.cr_network
                                   /\ o.Key[3] = row.burst_id
                                   /\ StartsWith20(o.Key[4]))

\* the number of pages of `size` keys that hold n keys
PageCount(n, size) == (n + size - 1) \div size

\* the p-th page of the listing of a seed row
PageOf(objs, size, row, p) ==
    SubSeq(ListedFor(objs, row), (p - 1) * size + 1, Min(p * size, Len(ListedFor(objs, row))))

\* the keys with the suffix of one page, oldest first
SuffixKeysOf(page) ==
    LET old == StableSort(page, LAMBDA a, b : a.LastModified < b.LastModified)
        h5 == SelectSeq(old, LAMBDA o : o.Key[5] \in {"a.h5", "b.h5"})
    IN  [i \in 1..Len(h5) |-> h5[i].Key]

\* the keys of all pages of the listing of a seed row
ExpectedKeys(objs, size, row) ==
    LET n == PageCount(Len(ListedFor(objs, row)), size)
        F[p \in 0..n] == IF p = 0 THEN <<>> ELSE F[p - 1] \o SuffixKeysOf(PageOf(objs, size, row, p))
    IN  F[n]

\* a completed run over two different seed rows that both listed keys
TwoSeedRowsWitness ==
    /\ pc = "done"
    /\ Len(df_val) = 2
    /\ df_val[1] # df_val[2]
    /\ \A k \in 1..2 : ExpectedKeys(objects, max_keys, df_val[k]) # <<>>

\* the requests the last generator has made: from its first, token-less one
TrailingRequests ==
    LET first == CHOOSE i \in 1..Len(requests) :
                    /\ requests[i].ContinuationToken = NoToken
                    /\ \A j \in (i + 1)..Len(requests) : requests[j].ContinuationToken # NoToken
    IN  Len(requests) - first + 1

\* C9: when the generator of a seed row is exhausted it has yielded the keys
\* with the suffix of every page, page by page and oldest first within a
\* page, and it has made one request for each page.
PaginationDrained ==
    (pc = "for" /\ df_ind > 1) =>
        LET row == df_val[df_ind - 1]
            n == PageCount(Len(ListedFor(objects, row)), max_keys)
        IN  /\ yielded = ExpectedKeys(objects, max_keys, row)
            /\ resp.NextContinuationToken = NoToken
            /\ TrailingRequests = IF n = 0 THEN 1 ELSE n

\* a listing of three pages whose middle page held no key with the suffix
FilteredPageWitness ==
    /\ pc = "for"
    /\ df_ind > 1
    /\ TrailingRequests >= 3
    /\ Len(yielded) >= 2
    /\ \E p \in 2..(TrailingRequests - 1) :
          SuffixKeysOf(PageOf(objects, max_keys, df_val[df_ind - 1], p)) = <<>>

\* no two rows of a table have the same burst_id and date
NoDuplicateRows(d) ==
    \A i, j \in 1..Len(d.rows) :
        (d.rows[i].burst_id = d.rows[j].burst_id /\ SameDate(d.rows[i].date, d.rows[j].date))
            => i = j

\* the rows of a table are in the order sort_values gives
RowsSorted(d) == \A i \in 1..(Len(d.rows) - 1) : ~RowLess(d.rows[i + 1], d.rows[i])

ListErrorMidway ==
    /\ pc = "error"
    /\ requests # <<>>
    /\ valid_results = <<>>
    /\ kwargs.ContinuationToken # NoToken

\* the rows of the working table for a burst_id
RowsOf(d, b) == {i \in 1..Len(d.rows) : d.rows[i].burst_id = b}

\* the rows the run started from
LoadedFrame == IF csv0.exists /\ ~LoadRaises(csv0) THEN ReadCsv(csv0) ELSE EmptyFrame

DedupIsPerBurst ==
    [][pc = "save" =>
          \A i \in 1..Len(validation_bursts_df.rows) :
              \/ validation_bursts_df.rows[i] \in Range(validation_bursts_df'.rows)
              \/ \E j \in 1..(i - 1) :
                    /\ validation_bursts_df.rows[j].burst_id = validation_bursts_df.rows[i].burst_id
                    /\ DateText(validation_bursts_df.rows[j].date) =
                           DateText(validation_bursts_df.rows[i].date)]_vars

\* the written table has two rows with the same date and different burst_id
SameDateTwoBurstsWitness ==
    /\ pc = "done"
    /\ \E i, j \in 1..Len(validation_csv.rows) :
          /\ validation_csv.rows[i].burst_id # validation_csv.rows[j].burst_id
          /\ validation_csv.rows[i].date = validation_csv.rows[j].date

\* the generator runs for a seed row whose listing has no key with the suffix
InEmptyListing ==
    /\ pc \in {"request", "yield"}
    /\ ExpectedKeys(objects, max_keys, df_val[df_ind]) = <<>>

\* C13: while the listing of a seed row yields no key, no row is appended and
\* no geometry is read; nothing raises unless the request itself does, and
\* the generator ends with the loop moving to the next seed row.
EmptyListingAddsNothing ==
    [][InEmptyListing =>
          /\ validation_bursts_df' = validation_bursts_df
          /\ fetches' = fetches
          /\ yielded' = <<>>
          /\ \/ pc' \in {"request", "yield"} /\ df_ind' = df_ind
             \/ pc' = "for" /\ df_ind' = df_ind + 1
             \/ pc' = "error" /\ pc = "request" /\ Len(requests') = Len(requests) + 1]_vars

\* a seed row whose objects were all filtered out is behind the loop, the
\* next seed row is still to come
EmptyListingWitness ==
    /\ pc = "for"
    /\ df_ind > 1
    /\ df_ind <= Len(df_val)
    /\ yielded = <<>>
    /\ ListedFor(objects, df_val[df_ind - 1]) # <<>>
    /\ ExpectedKeys(objects, max_keys, df_val[df_ind - 1]) = <<>>

\* the file names of the universe that carry the text of a version number:
\* there is none, as in the keys of the bucket (t142_303931_iw3_20141015.h5)
NamesWith(version) == {}

\* version in key
ContainsVersion(k, version) == k[Len(k)] \in NamesWith(version)

\* C14: get_matching_s3_keys, called with version_num, yields only keys that
\* match the version number.
OnlyVersionKeysYielded ==
    \A i \in 1..Len(yielded) : ContainsVersion(yielded[i], version_num)

\* a request is being added to the log
Requesting == Len(requests') = Len(requests) + 1

\* C15: the first request of a generator carries no continuation token, every
\* later one carries the token of the response just before it, all with the
\* bucket and the prefix of the seed row, and no request follows a response
\* without a token or without contents.
TokenProtocol ==
    /\ [][Requesting =>
             /\ pc = "request"
             /\ requests' = Append(requests, kwargs)
             /\ kwargs.Bucket = "opera-provisional-products"
             /\ kwargs.Prefix = <<"CSLC/pst_adt_common/az_fm_rate/no_az_fm_rate",
                                  df_val[df_ind].cr_network, df_val[df_ind].burst_id, "20">>
             /\ kwargs.ContinuationToken = resp.NextContinuationToken]_vars
    /\ [](pc = "request" =>
             \/ resp = [Contents |-> <<>>, NextContinuationToken |-> 0] /\ yielded = <<>>
             \/ resp.Contents # <<>> /\ resp.NextContinuationToken # 0)
    /\ [][(pc = "request" /\ pc' = "yield") =>
             resp' = list_objects_v2(objects, max_keys, requests'[Len(requests')])]_vars

\* the request for a second page has been answered
SecondPageWitness ==
    /\ pc = "yield"
    /\ Len(requests) >= 2
    /\ requests[Len(requests)].ContinuationToken # 0
    /\ requests[Len(requests) - 1].ContinuationToken = 0
    /\ requests[Len(requests)].Prefix = requests[Len(requests) - 1].Prefix
    /\ resp.Contents # <<>>

\* the (burst_id, date) pairs of a table file
PairsOf(file) == {<<file.rows[i].burst_id, file.rows[i].date>> : i \in 1..Len(file.rows)}

\* the pairs (seed burst_id, second-to-last segment) of the keys the listings
\* of the seed rows hold
ListedPairs ==
    UNION {{<<df_val[r].burst_id, k[Len(k) - 1]>> :
               k \in Range(ExpectedKeys(objects, max_keys, df_val[r]))} : r \in 1..Len(df_val)}

\* C16: the (burst_id, date) pairs of the table a completed run writes are
\* the pairs of the table it started from together with the pairs of the keys
\* its listings yielded, and no other.
NoLossNoInvention ==
    pc = "done" => PairsOf(validation_csv) = PairsOf(csv0) \cup ListedPairs

\* a completed second run that had both loaded rows and listed keys
LoadedAndListedWitness ==
    /\ pc = "done"
    /\ run = 2
    /\ PairsOf(csv0) # {}
    /\ ListedPairs # {}
    /\ Cardinality(PairsOf(validation_csv)) >= 2

\* row i of a sequence of rows is the first with its burst_id and date
FirstOfPair(rows, i) ==
    \A j \in 1..(i - 1) : rows[j].burst_id # rows[i].burst_id \/ rows[j].date # rows[i].date

RunStep ==
    \/ LoadExisting
    \/ LoadKeyError
    \/ LoadInitial
    \/ CheckSeedMissing
    \/ CheckSeedPresent
    \/ ReadSeed
    \/ StartBurst
    \/ EndLoop
    \/ ListPage
    \/ ListNoContents
    \/ SkipCaptured
    \/ ReuseGeometry
    \/ FetchGeometry
    \/ NextPage
    \/ LastPage
    \/ SaveTable

Returns ==
    \/ RunStep
    \/ Rerun

\* the bucket holds every object of the universe: every listing is as long as
\* it gets, with and without contents, in one page and in several
TerminationInit == Init /\ objects = Range(Universe)

TerminationSpec == TerminationInit /\ [][Returns]_vars /\ WF_vars(RunStep)

\* C18: when every listing request and every geometry fetch returns, a run
\* that has found the seed file reaches the final write of the table, every
\* call of get_matching_s3_keys ends after its last page, and the keys it
\* yields and the requests it makes are bounded by the objects in the bucket.
RunTerminates ==
    /\ (pc = "query") ~> (pc = "done" /\ outputs # <<>>)
    /\ (pc = "request") ~> (pc = "for")
    /\ [](Len(yielded) <= Len(df_val) * Cardinality(objects))
    /\ [](Len(requests) <= Len(df_val) * (Cardinality(objects) + 1))

\* a completed run over two seed rows whose listings took more than one page
\* each
SeveralPagesWitness ==
    /\ pc = "done"
    /\ Len(df_val) = 2
    /\ Len(requests) > 2 * Len(df_val)
    /\ Len(yielded) > Len(df_val)

\* C19: a row loaded from the table file an earlier run wrote has the date
\* that key.split('/')[-2] derives from the key of its cslc_url: the same
\* value of the same type.
DateRoundTrip ==
    (pc = "check" /\ csv0.exists) =>
        \A i \in 1..Len(validation_bursts_df.rows) :
            validation_bursts_df.rows[i].date = date(Tail(validation_bursts_df.rows[i].cslc_url))

====
